---------------------------- MODULE Spec2Model ----------------------------
(***************************************************************************)
(* Model of the model-hub catalog pipeline: the hub API handlers           *)
(* (hub_service/api.py), the job submission helpers (common/job_queue.py), *)
(* the registry client's pure helpers (common/hf_client.py) and the three  *)
(* worker tasks (worker_service/tasks.py).                                 *)
(*                                                                         *)
(* Strings the code inspects character by character (file paths) are       *)
(* sequences of one-character strings.  Catalog rows are kept in sequences *)
(* whose index is the row's primary key.  Every worker owns a database     *)
(* session: changes made to loaded or added rows stay in the session       *)
(* (added, dirty) until a commit applies them to the catalog.              *)
(***************************************************************************)
EXTENDS Integers, Sequences, FiniteSets, TLC

\* ------------------------------------------------------------------ bounds
\* Jobs that may be submitted in one behaviour.
MaxJobs == 2
\* Worker crashes (each followed by a redelivery of the job) in one behaviour.
MaxCrashes == 1
\* Longest list of artifact ids in one download request.
MaxIdsPerRequest == 2

\* --------------------------------------------------------------- constants
\* tasks.py line 105: the inline metadata threshold, in bytes.
INLINE_THRESHOLD == 10000000

\* Worker processes and API request handlers, numbered.  They are
\* interchangeable, so new work goes to the first free one.
Workers == {1, 2}
Clients == {1, 2}

None == "none"
\* local_path = None, file_hash not yet computed: the empty path.
NoPath == <<>>
Unbound == "unbound"

\* ----------------------------------------------------------------- strings
Upper == <<"A","B","C","D","E","F","G","H","I","J","K","L","M",
           "N","O","P","Q","R","S","T","U","V","W","X","Y","Z">>
LowerAlpha == <<"a","b","c","d","e","f","g","h","i","j","k","l","m",
                "n","o","p","q","r","s","t","u","v","w","x","y","z">>

\* str.lower() on one character.
LowerChar(c) ==
    IF \E i \in 1..26 : Upper[i] = c
    THEN LowerAlpha[CHOOSE i \in 1..26 : Upper[i] = c]
    ELSE c

\* str.lower()
Lower(s) == [i \in 1..Len(s) |-> LowerChar(s[i])]

\* str.endswith(suf)
EndsWith(s, suf) ==
    /\ Len(s) >= Len(suf)
    /\ SubSeq(s, Len(s) - Len(suf) + 1, Len(s)) = suf

\* sub in s
Contains(s, sub) ==
    \E i \in 1..(Len(s) - Len(sub) + 1) : SubSeq(s, i, i + Len(sub) - 1) = sub

\* ------------------------------------------------- hf_client.classify_file_type
model_extensions ==
    { <<".","s","a","f","e","t","e","n","s","o","r","s">>,
      <<".","b","i","n">>,
      <<".","p","t">>,
      <<".","p","t","h">>,
      <<".","g","g","u","f">>,
      <<".","o","n","n","x">>,
      <<".","p","b">> }

S_json == <<".","j","s","o","n">>
S_config == <<"c","o","n","f","i","g">>
S_tokenizer == <<"t","o","k","e","n","i","z","e","r">>
S_vocab == <<"v","o","c","a","b">>

\* A faulty variant that tests the path as given, without lowercasing it.
classify_case_sensitive(file_path) ==
    IF \E ext \in model_extensions : EndsWith(file_path, ext) THEN "model"
    ELSE IF Contains(file_path, S_config) /\ EndsWith(file_path, S_json)
         THEN "config"
    ELSE IF Contains(file_path, S_tokenizer) \/ Contains(file_path, S_vocab)
         THEN "tokenizer"
    ELSE "other"

\* A faulty variant: the tokenizer test placed before the config test.
classify_tokenizer_first(file_path) ==
    LET path_lower == Lower(file_path) IN
    IF \E ext \in model_extensions : EndsWith(path_lower, ext) THEN "model"
    ELSE IF Contains(path_lower, S_tokenizer) \/ Contains(path_lower, S_vocab)
         THEN "tokenizer"
    ELSE IF Contains(path_lower, S_config) /\ EndsWith(path_lower, S_json)
         THEN "config"
    ELSE "other"

classify_file_type(file_path) ==
    LET path_lower == Lower(file_path) IN
    IF \E ext \in model_extensions : EndsWith(path_lower, ext) THEN "model"
    ELSE IF Contains(path_lower, S_config) /\ EndsWith(path_lower, S_json)
         THEN "config"
    ELSE IF Contains(path_lower, S_tokenizer) \/ Contains(path_lower, S_vocab)
         THEN "tokenizer"
    ELSE "other"

ArtifactType == {"model", "config", "tokenizer", "other"}

\* ------------------------------------------------------- the remote registry
\* The one remote repository id requests name, as vendor "/" name.
RemoteId == <<"vendorA", "/", "modelX">>

P_config == <<"c","o","n","f","i","g",".","j","s","o","n">>
P_model == <<"m","o","d","e","l",".","s","a","f","e","t","e","n","s","o","r","s">>
P_ema == <<"e","m","a",".","s","a","f","e","t","e","n","s","o","r","s">>
P_readme == <<"r","e","a","d","m","e",".","m","d">>
P_tokcfg == <<"t","o","k","e","n","i","z","e","r","_","c","o","n","f","i","g",".","j","s","o","n">>

\* What list_repo_files returns for a file: path, size, blob_id.
F_config == [path |-> P_config, size |-> 500, blob_id |-> <<"git", "config">>]
F_model == [path |-> P_model, size |-> 2000000000, blob_id |-> <<"git", "model">>]
F_ema == [path |-> P_ema, size |-> 2000000000, blob_id |-> <<"git", "ema">>]
F_readme == [path |-> P_readme, size |-> 1000, blob_id |-> <<"git", "readme">>]

P_vocab == <<"v","o","c","a","b",".","j","s","o","n">>
F_vocab == [path |-> P_vocab, size |-> INLINE_THRESHOLD, blob_id |-> <<"git", "vocab">>]
F_tokcfg == [path |-> P_tokcfg, size |-> 700, blob_id |-> <<"git", "tokcfg">>]

\* The listings the remote repository may hold (one per behaviour).
ListingDocs == <<F_config, F_readme>>
ListingScenario == <<F_config, F_model>>
ListingWeights == <<F_model, F_ema>>
ListingVocab == <<F_vocab, F_tokcfg>>
Listings == {ListingDocs, ListingScenario, ListingWeights, ListingVocab}

\* The bytes the registry serves for a path: the two weight files are
\* byte-identical copies.
RemoteBytes(path) ==
    CASE path \in {P_model, P_ema} -> "bytes-weights"
      [] path = P_config -> "bytes-config"
      [] path = P_readme -> "bytes-readme"
      [] path = P_vocab -> "bytes-vocab"
      [] OTHER -> "bytes-tokcfg"

\* ------------------------------------------------------------- common/models
JobStatus == {"pending", "running", "completed", "failed"}
DownloadStatus == {"pending", "downloading", "completed", "failed"}
RepoStatus == {"registered", "synced", "error"}

\* ModelRepo(repo_id=..., status=RepoStatus.REGISTERED)
ModelRepo(repo_id) == [repo_id |-> repo_id, status |-> "registered"]

\* ModelArtifact(...) as sync_repo_metadata constructs it.
ModelArtifact(model_repo_id, file_path, file_type, size_bytes, content_hash) ==
    [model_repo_id |-> model_repo_id, file_path |-> file_path,
     file_type |-> file_type, size_bytes |-> size_bytes,
     content_hash |-> content_hash, download_status |-> "pending",
     local_path |-> NoPath]

\* Job(type=..., status=JobStatus.PENDING, payload=..., logs="Job queued")
Job(type, payload) ==
    [type |-> type, status |-> "pending", payload |-> payload,
     logs |-> <<"Job queued">>]

\* repo_id: Field(index=True, unique=True): an insert of a second row with
\* the same repo_id is rejected by the store.
RepoIdUnchecked(rs, repo_id) == TRUE

RepoIdUnique(rs, repo_id) == \A i \in DOMAIN rs : rs[i].repo_id # repo_id

\* ------------------------------------------------------------------- state
VARIABLES
    remote,      \* the file listing the remote registry holds for RemoteId
    repos,       \* table model_repo (committed rows; index = primary key)
    artifacts,   \* table model_artifact
    jobs,        \* table job
    queue,       \* job_id -> the work item enqueued to ARQ and not yet taken
    temp,        \* files present under <store>/temp: <<repo_id, file_path>>
    blobs,       \* files under <store>/blobs/sha256: name -> bytes
    meta,        \* files present under <store>/metadata: <<dir, file_path>>
    wk,          \* per worker: position in its task, locals, session
    cl,          \* per API request handler: position, locals, last response
    budget,      \* jobs that may still be submitted
    crashes,     \* worker crashes so far
    deliveries,  \* job_id -> how often the queue handed the item to a worker
    cpath,       \* the path handed to classify_file_type
    ctype        \* the type classify_file_type returned for cpath

vars == <<remote, repos, artifacts, jobs, queue, temp, blobs, meta, wk, cl,
          budget, crashes, deliveries, cpath, ctype>>

fsvars == <<temp, blobs, meta>>
classifyvars == <<cpath, ctype>>

\* ------------------------------------------------------------------ helpers
\* Right-biased merge of two records (column updates onto a row).
Merge(a, b) ==
    [f \in DOMAIN a \cup DOMAIN b |-> IF f \in DOMAIN b THEN b[f] ELSE a[f]]

\* The columns of upd whose value differs from the loaded row: the unit of
\* work emits an UPDATE only for attributes that changed.
Changed(row, upd) ==
    LET fs == {f \in DOMAIN upd : upd[f] # row[f]} IN [f \in fs |-> upd[f]]

\* Record the column updates of row id in a session's dirty set.
Touch(dirty, id, upd) ==
    IF DOMAIN upd = {} THEN dirty
    ELSE [i \in DOMAIN dirty \cup {id} |->
            IF i = id
            THEN (IF id \in DOMAIN dirty THEN Merge(dirty[id], upd) ELSE upd)
            ELSE dirty[i]]

\* A faulty variant that persists the first added row only.
FlushFirstAdded(rows, dirty, added) ==
    [i \in DOMAIN rows |->
        IF i \in DOMAIN dirty THEN Merge(rows[i], dirty[i]) ELSE rows[i]]
    \o (IF added = <<>> THEN <<>> ELSE <<Head(added)>>)

\* session.commit(): the session's dirty columns and added rows reach the table.
Flush(rows, dirty, added) ==
    [i \in DOMAIN rows |->
        IF i \in DOMAIN dirty THEN Merge(rows[i], dirty[i]) ELSE rows[i]]
    \o added

\* select(ModelRepo).where(ModelRepo.repo_id == repo_id): matching row ids.
ReposById(repo_id) == {i \in DOMAIN repos : repos[i].repo_id = repo_id}

\* select(ModelArtifact).where(model_repo_id == ..., file_path == ...)
ArtifactsAt(model_repo_id, file_path) ==
    {i \in DOMAIN artifacts :
        /\ artifacts[i].model_repo_id = model_repo_id
        /\ artifacts[i].file_path = file_path}

\* repo_id.replace("/", "_")
Sanitize(repo_id) ==
    [i \in DOMAIN repo_id |-> IF repo_id[i] = "/" THEN "_" ELSE repo_id[i]]

\* Path(MODEL_STORE_PATH) / "metadata" / repo_id.replace("/", "_"), and the
\* file hf_hub_download leaves below it.
MetadataPath(repo_id, file_path) == <<"metadata", Sanitize(repo_id), file_path>>

\* A faulty variant keying the blob by the file's path instead of its digest.
FinalPathByFile(file_hash, file_path) == <<"blobs", "sha256", file_path>>

\* blob_dir / file_hash
FinalPath(file_hash, file_path) == <<"blobs", "sha256", file_hash>>

\* A faulty variant that digests nothing of the file.
hash_of_nothing(bytes) == <<"sha256-of", "">>

\* hashlib.sha256 over the file's bytes: equal bytes, equal digest.
compute_file_hash(bytes) == <<"sha256-of", bytes>>

\* The file hf_hub_download leaves under temp for (repo_id, file_path).
TempFile(repo_id, file_path) == <<repo_id, file_path>>

\* Write bytes at name (a rename onto an existing name replaces it).
Place(store, name, bytes) ==
    [n \in DOMAIN store \cup {name} |-> IF n = name THEN bytes ELSE store[n]]

IdleWorker ==
    [pc |-> "idle", fn |-> None, arg |-> None, job_id |-> 0,
     model_repo |-> 0, files |-> <<>>, idx |-> 0,
     file_type_str |-> Unbound, artifacts_created |-> 0,
     metadata_files_downloaded |-> 0, added |-> <<>>, dirty |-> <<>>,
     exc |-> None, file_hash |-> NoPath, final_path |-> NoPath, found |-> FALSE]

IdleClient ==
    [pc |-> "idle", kind |-> None, repo_id |-> <<>>, auto_sync |-> FALSE,
     ids |-> <<>>, job_id |-> 0, resp |-> None]

\* ------------------------------------------------------------------- Init
\* The services have started on an empty catalog and an empty store.
Empty(listing) ==
    /\ remote = listing
    /\ repos = <<>>
    /\ artifacts = <<>>
    /\ jobs = <<>>
    /\ queue = <<>>
    /\ temp = {}
    /\ blobs = <<>>
    /\ meta = {}
    /\ wk = [w \in Workers |-> IdleWorker]
    /\ cl = [c \in Clients |-> IdleClient]
    /\ budget = MaxJobs
    /\ crashes = 0
    /\ deliveries = <<>>

\* The catalog once RemoteId has been registered with auto_sync and that
\* first sync of listing has run to its end with no inline fetch made: the
\* repository Synced, one Pending artifact per listed file, the sync job
\* Completed, nothing in the store.
AfterFirstSync(listing) ==
    /\ remote = listing
    /\ repos = <<[ModelRepo(RemoteId) EXCEPT !.status = "synced"]>>
    /\ artifacts =
         [i \in 1..Len(listing) |->
            ModelArtifact(1, listing[i].path,
                          classify_file_type(listing[i].path),
                          listing[i].size, listing[i].blob_id)]
    /\ jobs = <<[Job("sync", RemoteId) EXCEPT
                   !.status = "completed",
                   !.logs = <<"Synced", Len(listing), Len(listing), 0>>]>>
    /\ queue = <<>>
    /\ temp = {}
    /\ blobs = <<>>
    /\ meta = {}
    /\ wk = [w \in Workers |-> IdleWorker]
    /\ cl = [c \in Clients |->
               IF c = 1 THEN [IdleClient EXCEPT !.resp = "200"] ELSE IdleClient]
    /\ budget = MaxJobs
    /\ crashes = 0
    /\ deliveries = <<1>>

\* A behaviour starts on the empty catalog, or on the catalog as the first
\* sync of the weight files leaves it.
Init ==
    /\ Empty(ListingDocs) \/ AfterFirstSync(ListingWeights)
    /\ cpath = <<>>
    /\ ctype = None

\* ------------------------------------------------------ hub_service/api.py
\* The artifact ids a download request may name.
RequestIds == 1..4
IdLists ==
    UNION {[1..n -> RequestIds] : n \in 1..MaxIdsPerRequest}

apivars ==
    <<remote, artifacts, temp, blobs, meta, wk, crashes, deliveries, cpath, ctype>>

\* Handler c is free and every handler before it is busy.
FirstFree(c) ==
    /\ cl[c].pc = "idle"
    /\ \A d \in Clients : d < c => cl[d].pc # "idle"

\* register_model, lines 32-38: the lookup and the 400 answer.
RegisterCheck(c, source_repo_id, auto_sync) ==
    /\ FirstFree(c)
    /\ budget >= (IF auto_sync THEN 1 ELSE 0)
    /\ IF ReposById(source_repo_id) # {}
       THEN /\ cl' = [cl EXCEPT ![c] = [IdleClient EXCEPT !.resp = "400"]]
            /\ UNCHANGED budget
       ELSE /\ cl' = [cl EXCEPT ![c] =
                        [IdleClient EXCEPT !.pc = "reg_insert",
                                           !.kind = "sync",
                                           !.repo_id = source_repo_id,
                                           !.auto_sync = auto_sync]]
            /\ budget' = budget - (IF auto_sync THEN 1 ELSE 0)
    /\ UNCHANGED <<repos, jobs, queue>>
    /\ UNCHANGED apivars

\* register_model, lines 40-54: the insert, its commit, and the auto sync.
RegisterInsert(c) ==
    /\ cl[c].pc = "reg_insert"
    /\ IF RepoIdUnique(repos, cl[c].repo_id)
       THEN /\ repos' = Append(repos, ModelRepo(cl[c].repo_id))
            /\ cl' = [cl EXCEPT ![c] =
                        IF cl[c].auto_sync
                        THEN [cl[c] EXCEPT !.pc = "enq_commit"]
                        ELSE [IdleClient EXCEPT !.resp = "200"]]
       ELSE \* IntegrityError from the commit: nothing is stored
            /\ cl' = [cl EXCEPT ![c] = [IdleClient EXCEPT !.resp = "500"]]
            /\ UNCHANGED repos
    /\ UNCHANGED <<jobs, queue, budget>>
    /\ UNCHANGED apivars

\* sync_model, lines 85-94.
SyncRequest(c, repo_id) ==
    /\ FirstFree(c)
    /\ budget >= 1
    /\ IF ReposById(repo_id) = {}
       THEN /\ cl' = [cl EXCEPT ![c] = [IdleClient EXCEPT !.resp = "404"]]
            /\ UNCHANGED budget
       ELSE /\ cl' = [cl EXCEPT ![c] =
                        [IdleClient EXCEPT !.pc = "enq_commit",
                                           !.kind = "sync",
                                           !.repo_id = repo_id]]
            /\ budget' = budget - 1
    /\ UNCHANGED <<repos, jobs, queue>>
    /\ UNCHANGED apivars

\* download_artifacts, lines 107-109: the request is taken up.
DownloadRequest(c, artifact_ids) ==
    /\ FirstFree(c)
    /\ budget >= Len(artifact_ids)
    /\ cl' = [cl EXCEPT ![c] =
                [IdleClient EXCEPT !.pc = "dl_loop", !.kind = "download",
                                   !.ids = artifact_ids]]
    /\ budget' = budget - Len(artifact_ids)
    /\ UNCHANGED <<repos, jobs, queue>>
    /\ UNCHANGED apivars

\* download_artifacts, lines 109-124: one turn of the loop, or its end.
DownloadNext(c) ==
    /\ cl[c].pc = "dl_loop"
    /\ IF cl[c].ids = <<>>
       THEN cl' = [cl EXCEPT ![c] = [IdleClient EXCEPT !.resp = "200"]]
       ELSE IF Head(cl[c].ids) \notin DOMAIN artifacts
       THEN cl' = [cl EXCEPT ![c] = [IdleClient EXCEPT !.resp = "404"]]
       ELSE cl' = [cl EXCEPT ![c].pc = "enq_commit"]
    /\ UNCHANGED <<repos, jobs, queue, budget>>
    /\ UNCHANGED apivars

\* scan_storage, line 132.
ScanRequest(c) ==
    /\ FirstFree(c)
    /\ budget >= 1
    /\ cl' = [cl EXCEPT ![c] =
                [IdleClient EXCEPT !.pc = "enq_commit", !.kind = "scan"]]
    /\ budget' = budget - 1
    /\ UNCHANGED <<repos, jobs, queue>>
    /\ UNCHANGED apivars

\* ----------------------------------------------------- common/job_queue.py
\* The payload of the job a handler is about to enqueue.
Payload(c) ==
    CASE cl[c].kind = "sync" -> cl[c].repo_id
      [] cl[c].kind = "download" -> Head(cl[c].ids)
      [] OTHER -> "scan_path"

TaskName(kind) ==
    CASE kind = "sync" -> "sync_repo_metadata"
      [] kind = "download" -> "download_artifact"
      [] OTHER -> "scan_local_storage"

\* A faulty variant that hands the work item to ARQ before the Job record
\* is stored.
EnqueueBeforeCommit(c) ==
    /\ cl[c].pc = "enq_commit"
    /\ queue' = Place(queue, Len(jobs) + 1,
                       [fn |-> TaskName(cl[c].kind), arg |-> Payload(c)])
    /\ cl' = [cl EXCEPT ![c].pc = "enq_push", ![c].job_id = Len(jobs) + 1]
    /\ UNCHANGED <<repos, jobs, budget>>
    /\ UNCHANGED apivars

\* enqueue_*_job, "Create job record": session.add(job); commit; refresh.
EnqueueCommit(c) ==
    /\ cl[c].pc = "enq_commit"
    /\ jobs' = Append(jobs, Job(cl[c].kind, Payload(c)))
    /\ cl' = [cl EXCEPT ![c].pc = "enq_push", ![c].job_id = Len(jobs) + 1]
    /\ UNCHANGED <<repos, queue, budget>>
    /\ UNCHANGED apivars

\* enqueue_*_job, "Enqueue to ARQ": pool.enqueue_job(name, arg, job_id).
EnqueuePush(c) ==
    /\ cl[c].pc = "enq_push"
    /\ queue' = Place(queue, cl[c].job_id,
                       [fn |-> TaskName(cl[c].kind), arg |-> Payload(c)])
    /\ cl' = [cl EXCEPT ![c] =
                IF cl[c].kind = "download"
                THEN [cl[c] EXCEPT !.pc = "dl_loop", !.ids = Tail(cl[c].ids)]
                ELSE [IdleClient EXCEPT !.resp = "200"]]
    /\ UNCHANGED <<repos, jobs, budget>>
    /\ UNCHANGED apivars

\* --------------------------------------------------- worker_service (ARQ)
wkenv == <<remote, cl, budget, deliveries, cpath, ctype>>

\* The work item a busy worker holds: the task's name and its argument.
Item(w) == [fn |-> wk[w].fn, arg |-> wk[w].arg]

\* A faulty variant that writes the status and keeps the old log.
MarkJobKeepsLog(js, job_id, status, logs) ==
    IF job_id \in DOMAIN js
    THEN [js EXCEPT ![job_id].status = status]
    ELSE js

\* job = await session.get(Job, job_id); if job: status, logs; commit.
\* The commit carries whatever else the session holds (dirty, added).
MarkJob(js, job_id, status, logs) ==
    IF job_id \in DOMAIN js
    THEN [js EXCEPT ![job_id].status = status, ![job_id].logs = logs]
    ELSE js

\* How often job_id's item has been handed to a worker.
Delivered(job_id) ==
    IF job_id \in DOMAIN deliveries THEN deliveries[job_id] ELSE 0

\* WorkerSettings.functions: a worker takes an item and calls the task.
Deliver(w) ==
    /\ wk[w].pc = "idle"
    /\ \A v \in Workers : v < w => wk[v].pc # "idle"
    /\ \E job_id \in DOMAIN queue :
        /\ queue' = [j \in DOMAIN queue \ {job_id} |-> queue[j]]
        /\ wk' = [wk EXCEPT ![w] =
                    [IdleWorker EXCEPT !.pc = "start",
                                       !.fn = queue[job_id].fn,
                                       !.arg = queue[job_id].arg,
                                       !.job_id = job_id]]
        /\ deliveries' = Place(deliveries, job_id, Delivered(job_id) + 1)
    /\ UNCHANGED <<repos, artifacts, jobs, crashes>>
    /\ UNCHANGED fsvars
    /\ UNCHANGED <<remote, cl, budget, cpath, ctype>>

\* The task returned or raised: the worker is free again.
Finish(w) ==
    /\ wk[w].pc \in {"return", "raise"}
    /\ wk' = [wk EXCEPT ![w] = IdleWorker]
    /\ UNCHANGED <<repos, artifacts, jobs, queue, crashes>>
    /\ UNCHANGED fsvars
    /\ UNCHANGED wkenv

\* The worker process dies mid-task; its session's uncommitted changes are
\* lost and the queue redelivers the item (at-least-once delivery).
Crash(w) ==
    /\ wk[w].pc # "idle"
    /\ crashes < MaxCrashes
    /\ crashes' = crashes + 1
    /\ queue' = Place(queue, wk[w].job_id, Item(w))
    /\ wk' = [wk EXCEPT ![w] = IdleWorker]
    /\ UNCHANGED <<repos, artifacts, jobs>>
    /\ UNCHANGED fsvars
    /\ UNCHANGED wkenv

\* ------------------------------------------- tasks.py: sync_repo_metadata
\* A faulty variant that resets the job instead of completing it.
CompletedAsPending == "pending"

\* JobStatus.COMPLETED as the tasks write it on success.
COMPLETED == "completed"

\* lines 40-46
SyncStart(w) ==
    /\ wk[w].pc = "start"
    /\ wk[w].fn = "sync_repo_metadata"
    /\ jobs' = MarkJob(jobs, wk[w].job_id, "running", <<"Starting metadata sync">>)
    /\ wk' = [wk EXCEPT ![w].pc = "s_lookup"]
    /\ UNCHANGED <<repos, artifacts, queue, crashes>>
    /\ UNCHANGED fsvars
    /\ UNCHANGED wkenv

\* A faulty variant that asks the registry for the listing before it looks
\* the repository up.
SyncLookupListsFirst(w) ==
    /\ wk[w].pc = "s_lookup"
    /\ \/ wk' = [wk EXCEPT ![w].pc = "s_except",
                           ![w].exc = "Failed to list files"]
       \/ IF ReposById(wk[w].arg) = {}
          THEN wk' = [wk EXCEPT ![w].pc = "s_except",
                                ![w].exc = "ModelRepo not found"]
          ELSE \E model_repo \in ReposById(wk[w].arg) :
                 wk' = [wk EXCEPT ![w].pc = "s_loop",
                                  ![w].model_repo = model_repo,
                                  ![w].files = remote,
                                  ![w].idx = 1]
    /\ UNCHANGED <<repos, artifacts, jobs, queue, crashes>>
    /\ UNCHANGED fsvars
    /\ UNCHANGED wkenv

\* lines 48-60: the repository lookup and the remote file listing.
SyncLookup(w) ==
    /\ wk[w].pc = "s_lookup"
    /\ IF ReposById(wk[w].arg) = {}
       THEN wk' = [wk EXCEPT ![w].pc = "s_except",
                             ![w].exc = "ModelRepo not found"]
       ELSE \E model_repo \in ReposById(wk[w].arg) :
              \/ wk' = [wk EXCEPT ![w].pc = "s_loop",
                                  ![w].model_repo = model_repo,
                                  ![w].files = remote,
                                  ![w].idx = 1]
              \/ wk' = [wk EXCEPT ![w].pc = "s_except",
                                  ![w].model_repo = model_repo,
                                  ![w].exc = "Failed to list files"]
    /\ UNCHANGED <<repos, artifacts, jobs, queue, crashes>>
    /\ UNCHANGED fsvars
    /\ UNCHANGED wkenv

\* A faulty variant that also fetches a file of exactly the threshold size.
InlineWantedUpTo(file_type_str, file_size) ==
    file_type_str \in {"config", "tokenizer"} /\ file_size <= INLINE_THRESHOLD

\* line 105: the files sync fetches inline.
InlineWanted(file_type_str, file_size) ==
    file_type_str \in {"config", "tokenizer"} /\ file_size < INLINE_THRESHOLD

\* A faulty variant in which a failed inline fetch fails the sync.
FetchErrorRaised(task) ==
    [task EXCEPT !.pc = "s_except", !.exc = "Failed to download"]

\* lines 130-131: download_file raised; it is printed and the loop goes on
\* with the next file.
FetchErrorPrinted(task) == [task EXCEPT !.idx = @ + 1]

\* lines 66-131: one turn of the loop over the listed files.  existing = 0
\* stands for "no row"; with several matching rows first() may return any.
SyncFile(w) ==
    /\ wk[w].pc = "s_loop"
    /\ wk[w].idx <= Len(wk[w].files)
    /\ LET me == wk[w]
           f == me.files[me.idx]
           matches == ArtifactsAt(me.model_repo, f.path)
       IN \E existing_artifact \in (IF matches = {} THEN {0} ELSE matches) :
          LET isnew == existing_artifact = 0
              file_type_str ==
                  IF isnew THEN classify_file_type(f.path)
                  ELSE me.file_type_str
              dirty1 ==
                  IF isnew THEN me.dirty
                  ELSE Touch(me.dirty, existing_artifact,
                             Changed(artifacts[existing_artifact],
                                     [size_bytes |-> f.size,
                                      content_hash |-> f.blob_id]))
              added1 ==
                  IF isnew
                  THEN Append(me.added,
                              ModelArtifact(me.model_repo, f.path,
                                            file_type_str, f.size, f.blob_id))
                  ELSE me.added
              created1 == me.artifacts_created + (IF isnew THEN 1 ELSE 0)
              base == [me EXCEPT !.file_type_str = file_type_str,
                                 !.dirty = dirty1, !.added = added1,
                                 !.artifacts_created = created1]
              downloaded_path == MetadataPath(me.arg, f.path)
              fetched == [local_path |-> downloaded_path,
                          download_status |-> "completed"]
          IN IF file_type_str = Unbound
             THEN \* line 105 reads a local that was never assigned
                  /\ wk' = [wk EXCEPT ![w] =
                              [base EXCEPT !.pc = "s_except",
                                           !.exc = "UnboundLocalError"]]
                  /\ UNCHANGED meta
             ELSE IF InlineWanted(file_type_str, f.size)
             THEN \/ /\ meta' = meta \cup {downloaded_path}
                     /\ wk' = [wk EXCEPT ![w] =
                          [base EXCEPT
                             !.idx = me.idx + 1,
                             !.metadata_files_downloaded = @ + 1,
                             !.dirty =
                                IF isnew THEN dirty1
                                ELSE Touch(dirty1, existing_artifact,
                                           Changed(artifacts[existing_artifact],
                                                   fetched)),
                             !.added =
                                IF isnew
                                THEN [added1 EXCEPT ![Len(added1)] =
                                        Merge(added1[Len(added1)], fetched)]
                                ELSE added1]]
                  \/ \* download_file raised
                     /\ wk' = [wk EXCEPT ![w] = FetchErrorPrinted(base)]
                     /\ UNCHANGED meta
             ELSE /\ wk' = [wk EXCEPT ![w] = [base EXCEPT !.idx = me.idx + 1]]
                  /\ UNCHANGED meta
    /\ UNCHANGED <<repos, artifacts, jobs, queue, crashes, temp, blobs>>
    /\ UNCHANGED wkenv

\* A faulty variant whose final commit carries the artifacts and leaves the
\* repository's status as it was.
SyncCommitKeepsStatus(w) ==
    /\ wk[w].pc = "s_loop"
    /\ wk[w].idx > Len(wk[w].files)
    /\ artifacts' = Flush(artifacts, wk[w].dirty, wk[w].added)
    /\ wk' = [wk EXCEPT ![w].pc = "s_finish", ![w].dirty = <<>>,
                        ![w].added = <<>>]
    /\ UNCHANGED <<repos, jobs, queue, crashes>>
    /\ UNCHANGED fsvars
    /\ UNCHANGED wkenv

\* lines 133-137: the repository becomes Synced and the session commits.
SyncCommit(w) ==
    /\ wk[w].pc = "s_loop"
    /\ wk[w].idx > Len(wk[w].files)
    /\ repos' = [repos EXCEPT ![wk[w].model_repo].status = "synced"]
    /\ artifacts' = Flush(artifacts, wk[w].dirty, wk[w].added)
    /\ wk' = [wk EXCEPT ![w].pc = "s_finish", ![w].dirty = <<>>,
                        ![w].added = <<>>]
    /\ UNCHANGED <<jobs, queue, crashes>>
    /\ UNCHANGED fsvars
    /\ UNCHANGED wkenv

\* lines 139-156
SyncFinish(w) ==
    /\ wk[w].pc = "s_finish"
    /\ jobs' = MarkJob(jobs, wk[w].job_id, COMPLETED,
                       <<"Synced", Len(wk[w].files), wk[w].artifacts_created,
                         wk[w].metadata_files_downloaded>>)
    /\ wk' = [wk EXCEPT ![w].pc = "return"]
    /\ UNCHANGED <<repos, artifacts, queue, crashes>>
    /\ UNCHANGED fsvars
    /\ UNCHANGED wkenv

\* A faulty variant whose handler also marks the repository Synced.
SyncExceptMarksSynced(w) ==
    /\ wk[w].pc = "s_except"
    /\ jobs' = MarkJob(jobs, wk[w].job_id, "failed", <<"Error", wk[w].exc>>)
    /\ artifacts' = Flush(artifacts, wk[w].dirty, wk[w].added)
    /\ repos' = [r \in DOMAIN repos |->
                  IF r = wk[w].model_repo
                  THEN [repos[r] EXCEPT !.status = "synced"] ELSE repos[r]]
    /\ wk' = [wk EXCEPT ![w].pc = "raise", ![w].dirty = <<>>,
                        ![w].added = <<>>]
    /\ UNCHANGED <<queue, crashes>>
    /\ UNCHANGED fsvars
    /\ UNCHANGED wkenv

\* A faulty variant whose handler puts the repository back to Registered.
SyncExceptResetsStatus(w) ==
    /\ wk[w].pc = "s_except"
    /\ jobs' = MarkJob(jobs, wk[w].job_id, "failed", <<"Error", wk[w].exc>>)
    /\ artifacts' = Flush(artifacts, wk[w].dirty, wk[w].added)
    /\ repos' = [r \in DOMAIN repos |->
                  IF r = wk[w].model_repo
                  THEN [repos[r] EXCEPT !.status = "registered"]
                  ELSE repos[r]]
    /\ wk' = [wk EXCEPT ![w].pc = "raise", ![w].dirty = <<>>,
                        ![w].added = <<>>]
    /\ UNCHANGED <<queue, crashes>>
    /\ UNCHANGED fsvars
    /\ UNCHANGED wkenv

\* lines 158-167: the handler's commit also carries what the session holds.
SyncExcept(w) ==
    /\ wk[w].pc = "s_except"
    /\ jobs' = MarkJob(jobs, wk[w].job_id, "failed", <<"Error", wk[w].exc>>)
    /\ IF wk[w].job_id \in DOMAIN jobs
       THEN artifacts' = Flush(artifacts, wk[w].dirty, wk[w].added)
       ELSE UNCHANGED artifacts
    /\ wk' = [wk EXCEPT ![w].pc = "raise", ![w].dirty = <<>>,
                        ![w].added = <<>>]
    /\ UNCHANGED <<repos, queue, crashes>>
    /\ UNCHANGED fsvars
    /\ UNCHANGED wkenv

\* -------------------------------------------- tasks.py: download_artifact
\* lines 191-197
DlStart(w) ==
    /\ wk[w].pc = "start"
    /\ wk[w].fn = "download_artifact"
    /\ jobs' = MarkJob(jobs, wk[w].job_id, "running", <<"Starting download">>)
    /\ wk' = [wk EXCEPT ![w].pc = "d_resolve"]
    /\ UNCHANGED <<repos, artifacts, queue, crashes>>
    /\ UNCHANGED fsvars
    /\ UNCHANGED wkenv

\* A faulty variant that leaves the artifact Pending until the file is in.
DownloadingAsPending == "pending"

\* lines 209-211: DownloadStatus.DOWNLOADING, committed before the fetch.
DOWNLOADING == "downloading"

\* lines 199-211: the artifact and its repository are resolved, and the
\* artifact is committed as Downloading.
DlResolve(w) ==
    /\ wk[w].pc = "d_resolve"
    /\ IF wk[w].arg \notin DOMAIN artifacts
       THEN /\ wk' = [wk EXCEPT ![w].pc = "d_except",
                                ![w].exc = "Artifact not found"]
            /\ UNCHANGED artifacts
       ELSE IF artifacts[wk[w].arg].model_repo_id \notin DOMAIN repos
       THEN /\ wk' = [wk EXCEPT ![w].pc = "d_except",
                                ![w].exc = "ModelRepo not found"]
            /\ UNCHANGED artifacts
       ELSE /\ artifacts' =
                 [artifacts EXCEPT ![wk[w].arg].download_status = DOWNLOADING]
            /\ wk' = [wk EXCEPT ![w].pc = "d_fetch",
                                ![w].model_repo =
                                    artifacts[wk[w].arg].model_repo_id]
    /\ UNCHANGED <<repos, jobs, queue, crashes>>
    /\ UNCHANGED fsvars
    /\ UNCHANGED wkenv

\* The temp file of the artifact a download task works on.
downloaded_path(w) ==
    TempFile(repos[wk[w].model_repo].repo_id, artifacts[wk[w].arg].file_path)

\* lines 216-222: hf_client.download_file into <store>/temp.
DlFetch(w) ==
    /\ wk[w].pc = "d_fetch"
    /\ \/ /\ temp' = temp \cup {downloaded_path(w)}
          /\ wk' = [wk EXCEPT ![w].pc = "d_hash"]
       \/ /\ wk' = [wk EXCEPT ![w].pc = "d_except",
                              ![w].exc = "Failed to download"]
          /\ UNCHANGED temp
    /\ UNCHANGED <<repos, artifacts, jobs, queue, crashes, blobs, meta>>
    /\ UNCHANGED wkenv

\* lines 224-230: compute_file_hash opens the temp file.
DlHash(w) ==
    /\ wk[w].pc = "d_hash"
    /\ IF downloaded_path(w) \in temp
       THEN LET file_hash ==
                  compute_file_hash(RemoteBytes(downloaded_path(w)[2]))
            IN wk' = [wk EXCEPT
                        ![w].pc = "d_exists",
                        ![w].file_hash = file_hash,
                        ![w].final_path =
                            FinalPath(file_hash, downloaded_path(w)[2])]
       ELSE wk' = [wk EXCEPT ![w].pc = "d_except",
                             ![w].exc = "FileNotFoundError (open)"]
    /\ UNCHANGED <<repos, artifacts, jobs, queue, crashes>>
    /\ UNCHANGED fsvars
    /\ UNCHANGED wkenv

\* line 233: final_path.exists()
DlExists(w) ==
    /\ wk[w].pc = "d_exists"
    /\ wk' = [wk EXCEPT ![w].pc = "d_place",
                        ![w].found = wk[w].final_path \in DOMAIN blobs]
    /\ UNCHANGED <<repos, artifacts, jobs, queue, crashes>>
    /\ UNCHANGED fsvars
    /\ UNCHANGED wkenv

\* lines 233-238: unlink the temp file, or rename it onto final_path.
DlPlace(w) ==
    /\ wk[w].pc = "d_place"
    /\ IF downloaded_path(w) \notin temp
       THEN /\ wk' = [wk EXCEPT ![w].pc = "d_except",
                                ![w].exc = IF wk[w].found
                                           THEN "FileNotFoundError (unlink)"
                                           ELSE "FileNotFoundError (rename)"]
            /\ UNCHANGED <<temp, blobs>>
       ELSE /\ temp' = temp \ {downloaded_path(w)}
            /\ blobs' = IF wk[w].found THEN blobs
                        ELSE Place(blobs, wk[w].final_path,
                                   RemoteBytes(downloaded_path(w)[2]))
            /\ wk' = [wk EXCEPT ![w].pc = "d_update"]
    /\ UNCHANGED <<repos, artifacts, jobs, queue, crashes, meta>>
    /\ UNCHANGED wkenv

\* lines 240-246
DlUpdate(w) ==
    /\ wk[w].pc = "d_update"
    /\ artifacts' = [artifacts EXCEPT
                       ![wk[w].arg].local_path = wk[w].final_path,
                       ![wk[w].arg].content_hash = wk[w].file_hash,
                       ![wk[w].arg].download_status = "completed"]
    /\ wk' = [wk EXCEPT ![w].pc = "d_finish"]
    /\ UNCHANGED <<repos, jobs, queue, crashes>>
    /\ UNCHANGED fsvars
    /\ UNCHANGED wkenv

\* lines 248-261
DlFinish(w) ==
    /\ wk[w].pc = "d_finish"
    /\ jobs' = MarkJob(jobs, wk[w].job_id, COMPLETED,
                       <<"Downloaded artifact to", wk[w].final_path>>)
    /\ wk' = [wk EXCEPT ![w].pc = "return"]
    /\ UNCHANGED <<repos, artifacts, queue, crashes>>
    /\ UNCHANGED fsvars
    /\ UNCHANGED wkenv

\* A faulty variant whose handler records the failure on the job only.
DlExceptSkipsArtifact(w) ==
    /\ wk[w].pc = "d_except"
    /\ wk' = [wk EXCEPT ![w].pc = "d_except_job"]
    /\ UNCHANGED <<repos, artifacts, jobs, queue, crashes>>
    /\ UNCHANGED fsvars
    /\ UNCHANGED wkenv

\* lines 263-271: the artifact is marked Failed, if it exists.
DlExceptArtifact(w) ==
    /\ wk[w].pc = "d_except"
    /\ artifacts' =
         IF wk[w].arg \in DOMAIN artifacts
         THEN [artifacts EXCEPT ![wk[w].arg].download_status = "failed"]
         ELSE artifacts
    /\ wk' = [wk EXCEPT ![w].pc = "d_except_job"]
    /\ UNCHANGED <<repos, jobs, queue, crashes>>
    /\ UNCHANGED fsvars
    /\ UNCHANGED wkenv

\* lines 273-284
DlExceptJob(w) ==
    /\ wk[w].pc = "d_except_job"
    /\ jobs' = MarkJob(jobs, wk[w].job_id, "failed", <<"Error", wk[w].exc>>)
    /\ wk' = [wk EXCEPT ![w].pc = "raise"]
    /\ UNCHANGED <<repos, artifacts, queue, crashes>>
    /\ UNCHANGED fsvars
    /\ UNCHANGED wkenv

\* ------------------------------------------- tasks.py: scan_local_storage
\* lines 303-308
ScanStart(w) ==
    /\ wk[w].pc = "start"
    /\ wk[w].fn = "scan_local_storage"
    /\ jobs' = MarkJob(jobs, wk[w].job_id, "running", <<"Starting scan">>)
    /\ wk' = [wk EXCEPT ![w].pc = "c_finish"]
    /\ UNCHANGED <<repos, artifacts, queue, crashes>>
    /\ UNCHANGED fsvars
    /\ UNCHANGED wkenv

\* lines 317-324
ScanFinish(w) ==
    /\ wk[w].pc = "c_finish"
    /\ jobs' = MarkJob(jobs, wk[w].job_id, COMPLETED,
                       <<"Scan completed (not yet implemented)">>)
    /\ wk' = [wk EXCEPT ![w].pc = "return"]
    /\ UNCHANGED <<repos, artifacts, queue, crashes>>
    /\ UNCHANGED fsvars
    /\ UNCHANGED wkenv

\* ------------------------------------------------------- the specification
Request(c) ==
    \/ \E a \in BOOLEAN : RegisterCheck(c, RemoteId, a)
    \/ SyncRequest(c, RemoteId)
    \/ \E ids \in IdLists : DownloadRequest(c, ids)
    \/ ScanRequest(c)

\* Every step that continues a request or a task already begun.
Step ==
    \/ \E c \in Clients : RegisterInsert(c)
    \/ \E c \in Clients : DownloadNext(c)
    \/ \E c \in Clients : EnqueueCommit(c)
    \/ \E c \in Clients : EnqueuePush(c)
    \/ \E w \in Workers : Finish(w)
    \/ \E w \in Workers : Crash(w)
    \/ \E w \in Workers : SyncStart(w)
    \/ \E w \in Workers : SyncLookup(w)
    \/ \E w \in Workers : SyncFile(w)
    \/ \E w \in Workers : SyncCommit(w)
    \/ \E w \in Workers : SyncFinish(w)
    \/ \E w \in Workers : SyncExcept(w)
    \/ \E w \in Workers : DlStart(w)
    \/ \E w \in Workers : DlResolve(w)
    \/ \E w \in Workers : DlFetch(w)
    \/ \E w \in Workers : DlHash(w)
    \/ \E w \in Workers : DlExists(w)
    \/ \E w \in Workers : DlPlace(w)
    \/ \E w \in Workers : DlUpdate(w)
    \/ \E w \in Workers : DlFinish(w)
    \/ \E w \in Workers : DlExceptArtifact(w)
    \/ \E w \in Workers : DlExceptJob(w)
    \/ \E w \in Workers : ScanStart(w)
    \/ \E w \in Workers : ScanFinish(w)

Next ==
    \/ \E c \in Clients : Request(c)
    \/ \E w \in Workers : Deliver(w)
    \/ Step

Spec == Init /\ [][Next]_vars

\* No request and no task is in progress.
AllIdle ==
    /\ \A w \in Workers : wk[w].pc = "idle"
    /\ \A c \in Clients : cl[c].pc = "idle"

\* Requests and tasks run one after another: a new one begins only when
\* nothing else is in progress.
SeqRequest(c) == AllIdle /\ Request(c)

SeqDeliver(w) == AllIdle /\ Deliver(w)

NextSeq ==
    \/ \E c \in Clients : SeqRequest(c)
    \/ \E w \in Workers : SeqDeliver(w)
    \/ Step

InitSeq ==
    /\ \/ \E listing \in Listings : Empty(listing)
       \/ AfterFirstSync(ListingWeights)
    /\ cpath = <<>>
    /\ ctype = None

SpecSeq == InitSeq /\ [][NextSeq]_vars

\* A remote id no Repository record carries.
UnregisteredId == <<"vendorB", "/", "modelY">>

\* enqueue_sync_job looks no repository up: the empty catalog with a sync
\* job committed and queued for a remote id that was never registered.
InitUnregistered ==
    /\ \E listing \in Listings : remote = listing
    /\ repos = <<>>
    /\ artifacts = <<>>
    /\ jobs = <<Job("sync", UnregisteredId)>>
    /\ queue = Place(<<>>, 1, [fn |-> "sync_repo_metadata",
                               arg |-> UnregisteredId])
    /\ temp = {}
    /\ blobs = <<>>
    /\ meta = {}
    /\ wk = [w \in Workers |-> IdleWorker]
    /\ cl = [c \in Clients |-> IdleClient]
    /\ budget = MaxJobs
    /\ crashes = 0
    /\ deliveries = <<>>
    /\ cpath = <<>>
    /\ ctype = None

SpecUnregistered == InitUnregistered /\ [][NextSeq]_vars

\* ------------------------------------------- catalog calls that may fail
\* The positions at which a sync or download task next calls the catalog
\* (session.get, session.exec, session.commit).
CatalogPcs ==
    {"start", "s_lookup", "s_loop", "s_finish", "s_except",
     "d_resolve", "d_update", "d_finish", "d_except", "d_except_job"}

\* Where a task goes when its catalog call raises: from the body into the
\* task's except block; in download_artifact's handler the error is
\* swallowed (try ... except Exception: pass, lines 263-271 and 273-282)
\* and the handler goes on; in sync_repo_metadata's handler (158-167) it
\* leaves the task at once. The Job keeps the status it had.
CatalogFailure(task) ==
    [task EXCEPT
       !.exc = "OperationalError",
       !.pc = CASE task.pc = "d_except" -> "d_except_job"
                [] task.pc \in {"s_except", "d_except_job"} -> "raise"
                [] task.fn = "sync_repo_metadata" -> "s_except"
                [] OTHER -> "d_except"]

\* The catalog call worker w is about to make returns an error.
CatalogError(w) ==
    /\ wk[w].fn \in {"sync_repo_metadata", "download_artifact"}
    /\ wk[w].pc \in CatalogPcs
    /\ wk' = [wk EXCEPT ![w] = CatalogFailure(wk[w])]
    /\ UNCHANGED <<repos, artifacts, jobs, queue, crashes>>
    /\ UNCHANGED fsvars
    /\ UNCHANGED wkenv

\* One step of the task worker w runs, up to handing the result to ARQ.
TaskStep(w) ==
    \/ Finish(w)
    \/ SyncStart(w)
    \/ SyncLookup(w)
    \/ SyncFile(w)
    \/ SyncCommit(w)
    \/ SyncFinish(w)
    \/ SyncExcept(w)
    \/ DlStart(w)
    \/ DlResolve(w)
    \/ DlFetch(w)
    \/ DlHash(w)
    \/ DlExists(w)
    \/ DlPlace(w)
    \/ DlUpdate(w)
    \/ DlFinish(w)
    \/ DlExceptArtifact(w)
    \/ DlExceptJob(w)
    \/ ScanStart(w)
    \/ ScanFinish(w)
    \/ CatalogError(w)

\* One step of the request handler c has begun.
HandlerStep(c) ==
    \/ RegisterInsert(c)
    \/ DownloadNext(c)
    \/ EnqueueCommit(c)
    \/ EnqueuePush(c)

\* The worker process does not crash; catalog calls may return an error.
\* Requests and tasks run one after another.
NextLive ==
    \/ \E c \in Clients : SeqRequest(c)
    \/ \E c \in Clients : HandlerStep(c)
    \/ \E w \in Workers : SeqDeliver(w)
    \/ \E w \in Workers : TaskStep(w)

\* Every call a task awaits returns, so a task that has been started goes
\* on until it returns or raises and the worker is free again.
SpecLive ==
    /\ InitSeq
    /\ [][NextLive]_vars
    /\ \A w \in Workers : WF_vars(TaskStep(w))

\* ----------------------------------------------- classify_file_type alone
Stems ==
    { <<>>, S_tokenizer, S_vocab, S_config, <<"T","o","k","e","n","i","z","e","r">>,
      <<"C","O","N","F","I","G">>, <<"m","o","d","e","l">>,
      <<"r","e","a","d","m","e">>, <<"s","u","b","/">> }
Middles == { <<>>, <<"_">> \o S_config, <<"_">> \o S_vocab, <<"-">> \o S_tokenizer }
Extensions ==
    model_extensions \cup
    { <<>>, S_json, <<".","J","S","O","N">>, <<".","m","d">>, <<".","t","x","t">>,
      <<".","m","o","d","e","l">>, <<".","B","I","N">> }

\* The paths classify_file_type is tried on.
SamplePaths ==
    {a \o b \o c : a \in Stems, b \in Middles, c \in Extensions}
    \cup {P_config, P_model, P_ema, P_readme, P_vocab, P_tokcfg}

InitClassify ==
    /\ Empty(ListingDocs)
    /\ cpath \in SamplePaths
    /\ ctype = None

\* ctype = hf_client.classify_file_type(cpath)
Classify ==
    /\ ctype = None
    /\ ctype' = classify_file_type(cpath)
    /\ UNCHANGED <<remote, repos, artifacts, jobs, queue, temp, blobs, meta,
                   wk, cl, budget, crashes, deliveries, cpath>>

SpecClassify == InitClassify /\ [][Classify]_vars

\* ------------------------------------------------------------------ claims
Terminal == {"completed", "failed"}

\* Pending -> Running -> {Completed, Failed}, steps may be skipped.
StatusStepOk(s, t) ==
    \/ s = t
    \/ s = "pending"
    \/ s = "running" /\ t \in Terminal

\* C1: the persisted status of a job the queue delivers once only moves
\* forward along Pending, Running, Completed or Pending, Running, Failed:
\* it starts Pending, never goes back, and a terminal status is never
\* replaced by the other one.
C1_MonotonicWhenDeliveredOnce ==
    [][\A j \in DOMAIN jobs' :
          (IF j \in DOMAIN deliveries' THEN deliveries'[j] ELSE 0) <= 1 =>
             IF j \in DOMAIN jobs
             THEN StatusStepOk(jobs[j].status, jobs'[j].status)
             ELSE jobs'[j].status = "pending"]_vars

\* C1 witness: jobs delivered once have ended Completed and Failed.
C1_Witness ==
    \E j, k \in DOMAIN jobs :
        /\ Delivered(j) = 1 /\ jobs[j].status = "completed"
        /\ Delivered(k) = 1 /\ jobs[k].status = "failed"

\* C2 (as claimed): a job that is Completed or Failed keeps that status in
\* every later step, redeliveries included.
C2_TerminalNeverLeft ==
    [][\A j \in DOMAIN jobs :
          (jobs[j].type \in {"sync", "download"} /\ jobs[j].status \in Terminal)
             => jobs'[j].status = jobs[j].status]_vars

\* C4 (as claimed): no two artifact rows share (repository, file path).
C4_UniqueArtifactPath ==
    \A i, j \in DOMAIN artifacts :
        (/\ artifacts[i].model_repo_id = artifacts[j].model_repo_id
         /\ artifacts[i].file_path = artifacts[j].file_path) => i = j

UniqueRepoIds ==
    \A i, j \in DOMAIN repos : repos[i].repo_id = repos[j].repo_id => i = j

\* C5: at most one repository row exists per remote id; a registration
\* goes on to its insert only if the id is not registered when it looks,
\* and a registration answered 400 or 500 leaves the table as it was.
C5_RegisterUnique ==
    [][/\ UniqueRepoIds'
       /\ \A c \in Clients :
            /\ (cl[c].pc = "idle" /\ cl'[c].pc = "reg_insert")
                 => ReposById(cl'[c].repo_id) = {}
            /\ (cl'[c] # cl[c] /\ cl'[c].resp \in {"400", "500"})
                 => /\ repos' = repos
                    /\ ReposById(RemoteId) # {}]_vars

\* C5 witness: of two concurrent registrations one was refused by the
\* store, and a later registration was answered 400.
C5_Witness ==
    /\ Len(repos) = 1
    /\ cl[1].resp = "400"
    /\ cl[2].resp = "500"

\* A sync task that got its file listing and found every file it has
\* looked at so far already in the catalog: a re-sync.
IsResync(w) ==
    /\ wk[w].fn = "sync_repo_metadata"
    /\ wk[w].files # <<>>
    /\ wk[w].artifacts_created = 0

\* C3 (as claimed): run one after the other on an unchanged listing, the
\* second sync ends with the job Completed and the repository Synced, has
\* created no artifact, and every artifact still has the listed size and
\* hash and the type of its own path.
C3_ResyncCompletes ==
    \A w \in Workers :
        (/\ IsResync(w)
         /\ Delivered(wk[w].job_id) = 1
         /\ wk[w].pc \in {"return", "raise"}) =>
            /\ wk[w].pc = "return"
            /\ jobs[wk[w].job_id].status = "completed"
            /\ repos[wk[w].model_repo].status = "synced"
            /\ Len(artifacts) = Len(remote)
            /\ \A i \in DOMAIN remote :
                 \E a \in DOMAIN artifacts :
                    /\ artifacts[a].file_path = remote[i].path
                    /\ artifacts[a].file_type = classify_file_type(remote[i].path)
                    /\ artifacts[a].size_bytes = remote[i].size
                    /\ artifacts[a].content_hash = remote[i].blob_id

\* The completed download jobs, and the blobs holding given bytes.
CompletedDownloads ==
    {j \in DOMAIN jobs :
        jobs[j].type = "download" /\ jobs[j].status = "completed"}

BlobsHolding(bytes) == {n \in DOMAIN blobs : blobs[n] = bytes}

\* Two finished downloads of distinct artifacts whose bytes are the same.
TwinDownloads(j, k) ==
    /\ j \in CompletedDownloads
    /\ k \in CompletedDownloads
    /\ jobs[j].payload # jobs[k].payload
    /\ jobs[j].payload \in DOMAIN artifacts
    /\ jobs[k].payload \in DOMAIN artifacts
    /\ RemoteBytes(artifacts[jobs[j].payload].file_path)
         = RemoteBytes(artifacts[jobs[k].payload].file_path)

\* C6: once two download jobs for distinct artifacts with identical bytes
\* have both completed, however their steps interleaved, the store holds
\* exactly one blob with those bytes and both artifacts' local paths are
\* that blob's path.
C6_DedupOneBlob ==
    \A j, k \in DOMAIN jobs :
        TwinDownloads(j, k) =>
            LET a == artifacts[jobs[j].payload]
                b == artifacts[jobs[k].payload]
                held == BlobsHolding(RemoteBytes(a.file_path))
            IN /\ Cardinality(held) = 1
               /\ a.local_path = b.local_path
               /\ a.local_path \in held

\* C6 witness: both downloads of the twin weight files have completed,
\* each delivered once, and one blob is in the store.
C6_Witness ==
    \E j, k \in DOMAIN jobs :
        /\ TwinDownloads(j, k)
        /\ Delivered(j) = 1 /\ Delivered(k) = 1
        /\ crashes = 0
        /\ Cardinality(DOMAIN blobs) = 1

\* Two download tasks race on one digest: each looked for the blob and did
\* not find it, so neither had placed its file when the other looked.
Racing(v, w) ==
    /\ v # w
    /\ wk[v].fn = "download_artifact" /\ wk[w].fn = "download_artifact"
    /\ wk[v].final_path # NoPath
    /\ wk[v].final_path = wk[w].final_path
    /\ ~wk[v].found /\ ~wk[w].found
    /\ wk[v].pc \notin {"d_hash", "d_exists"}
    /\ wk[w].pc \notin {"d_hash", "d_exists"}

\* C7 (as claimed): when two download tasks race to place the same digest,
\* neither fails at its unlink or rename, and once both are past that step
\* one copy of the blob is in the store.
C7_RaceSafe ==
    \A v, w \in Workers :
        Racing(v, w) =>
            /\ wk[v].exc = None
            /\ wk[w].exc = None
            /\ (wk[v].pc # "d_place" /\ wk[w].pc # "d_place")
                 => Cardinality(BlobsHolding(
                        RemoteBytes(artifacts[wk[v].arg].file_path))) = 1

\* The listed files sync is to fetch inline: Config or Tokenizer by their
\* path, declared size below 10,000,000 bytes.
SmallMetadata(files) ==
    {i \in DOMAIN files :
        /\ classify_file_type(files[i].path) \in {"config", "tokenizer"}
        /\ files[i].size < 10000000}

\* A sync task past its commit that found no listed file in the catalog
\* and whose inline fetches all succeeded.
FirstSyncDone(w) ==
    /\ wk[w].fn = "sync_repo_metadata"
    /\ wk[w].pc \in {"s_finish", "return"}
    /\ wk[w].files # <<>>
    /\ wk[w].artifacts_created = Len(wk[w].files)
    /\ wk[w].metadata_files_downloaded >= Cardinality(SmallMetadata(wk[w].files))

\* C8: after a successful first sync whose inline fetches all succeeded
\* there is exactly one artifact per listed file; the Config and Tokenizer
\* files below 10,000,000 bytes are Completed with a local path under the
\* metadata directory, where the file is; every other file is Pending
\* with no local path; and the repository is Synced.
C8_FirstSyncOutcome ==
    \A w \in Workers :
        FirstSyncDone(w) =>
            /\ Len(artifacts) = Len(wk[w].files)
            /\ repos[wk[w].model_repo].status = "synced"
            /\ \A i \in DOMAIN wk[w].files :
                 LET f == wk[w].files[i]
                     rows == ArtifactsAt(wk[w].model_repo, f.path)
                 IN /\ Cardinality(rows) = 1
                    /\ \A a \in rows :
                         IF i \in SmallMetadata(wk[w].files)
                         THEN /\ artifacts[a].download_status = "completed"
                              /\ artifacts[a].local_path # NoPath
                              /\ artifacts[a].local_path[1] = "metadata"
                              /\ artifacts[a].local_path \in meta
                         ELSE /\ artifacts[a].download_status = "pending"
                              /\ artifacts[a].local_path = NoPath

\* C8 witness: the first sync of config.json and model.safetensors is past
\* its commit, config.json fetched and the weights left Pending.
C8_Witness ==
    \E w \in Workers :
        /\ FirstSyncDone(w)
        /\ remote = ListingScenario
        /\ \E a, b \in DOMAIN artifacts :
              /\ artifacts[a].file_path = P_config
              /\ artifacts[a].download_status = "completed"
              /\ artifacts[b].file_path = P_model
              /\ artifacts[b].download_status = "pending"

\* The digest and the blob path the bytes of a file are to get.
DigestOf(file_path) == <<"sha256-of", RemoteBytes(file_path)>>

BlobPathOf(file_path) == <<"blobs", "sha256", DigestOf(file_path)>>

\* Artifact a is recorded as downloaded: its hash is the digest of its
\* bytes and its local path is the blob path of that digest.
Stored(rows, a) ==
    /\ rows[a].content_hash = DigestOf(rows[a].file_path)
    /\ rows[a].local_path = BlobPathOf(rows[a].file_path)

\* C9: run one after the other, a download whose fetch, hash and placing
\* succeeded leaves its artifact Completed with the digest of the fetched
\* bytes as hash and that digest's blob path, a stored blob, as local
\* path; and a download of an artifact already recorded so raises nothing
\* but a failed fetch, leaves the blobs and the artifact's hash and local
\* path as they are, and has the artifact Completed again at its end.
C9_DownloadThenRepeat ==
    [][\A w \in Workers :
          /\ wk'[w].pc = "d_finish" =>
                /\ artifacts'[wk'[w].arg].download_status = "completed"
                /\ Stored(artifacts', wk'[w].arg)
                /\ BlobPathOf(artifacts'[wk'[w].arg].file_path) \in DOMAIN blobs'
                /\ blobs'[BlobPathOf(artifacts'[wk'[w].arg].file_path)]
                     = RemoteBytes(artifacts'[wk'[w].arg].file_path)
          /\ (/\ wk[w].fn = "download_artifact"
              /\ wk[w].arg \in DOMAIN artifacts
              /\ Stored(artifacts, wk[w].arg)) =>
                /\ blobs' = blobs
                /\ Stored(artifacts', wk[w].arg)
                /\ wk'[w].exc \in {None, "Failed to download"}
                /\ wk'[w].pc = "return" =>
                      /\ jobs'[wk[w].job_id].status = "completed"
                      /\ artifacts'[wk[w].arg].download_status = "completed"]_vars

\* C9 witness: two download jobs for the same artifact, each delivered
\* once, have both completed.
C9_Witness ==
    \E j, k \in CompletedDownloads :
        /\ j < k
        /\ jobs[j].payload = jobs[k].payload
        /\ Delivered(j) = 1 /\ Delivered(k) = 1
        /\ crashes = 0
        /\ jobs[j].payload \in DOMAIN artifacts
        /\ Stored(artifacts, jobs[j].payload)
        /\ artifacts[jobs[j].payload].download_status = "completed"

HasModelExtension(path) ==
    \E ext \in model_extensions : EndsWith(Lower(path), ext)

NamesTokenizer(path) == Contains(Lower(path), S_tokenizer)

ConfigJson(path) ==
    Contains(Lower(path), S_config) /\ EndsWith(Lower(path), S_json)

\* C10 (as claimed): model.safetensors is Model, tokenizer_config.json is
\* Tokenizer, readme.md is Other, and every path that contains "tokenizer"
\* and has no model-weight extension is Tokenizer.
C10_TokenizerBeforeConfig ==
    ctype # None =>
        /\ cpath = P_model => ctype = "model"
        /\ cpath = P_tokcfg => ctype = "tokenizer"
        /\ cpath = P_readme => ctype = "other"
        /\ (NamesTokenizer(cpath) /\ ~HasModelExtension(cpath))
             => ctype = "tokenizer"

\* C10: model.safetensors is Model, readme.md is Other, and
\* tokenizer_config.json is Config; a path that contains "tokenizer" and
\* has no model-weight extension is Config when it also contains "config"
\* and ends with ".json", and Tokenizer otherwise.
C10_ConfigBeforeTokenizer ==
    ctype # None =>
        /\ cpath = P_model => ctype = "model"
        /\ cpath = P_tokcfg => ctype = "config"
        /\ cpath = P_readme => ctype = "other"
        /\ (NamesTokenizer(cpath) /\ ~HasModelExtension(cpath))
             => ctype = (IF ConfigJson(cpath) THEN "config" ELSE "tokenizer")

\* C10 witness: tokenizer_config.json has been classified.
C10_Witness ==
    /\ cpath = P_tokcfg
    /\ ctype = "config"

NamesVocab(path) == Contains(Lower(path), S_vocab)

\* The type the decision order gives a path.
DecisionOrder(path) ==
    CASE HasModelExtension(path) -> "model"
      [] ~HasModelExtension(path) /\ ConfigJson(path) -> "config"
      [] /\ ~HasModelExtension(path) /\ ~ConfigJson(path)
         /\ (NamesTokenizer(path) \/ NamesVocab(path)) -> "tokenizer"
      [] OTHER -> "other"

\* C11: on the lowercased path, a model-weight extension gives Model;
\* otherwise ".json" with "config" gives Config; otherwise "tokenizer" or
\* "vocab" gives Tokenizer; otherwise Other.  The result is one of the four
\* types.
C11_DecisionOrder ==
    ctype # None =>
        /\ ctype = DecisionOrder(cpath)
        /\ ctype \in ArtifactType

\* C11 witness: a path with upper-case letters that names a vocabulary has
\* been classified Tokenizer.
C11_Witness ==
    /\ ctype = "tokenizer"
    /\ cpath # Lower(cpath)
    /\ NamesVocab(cpath)

\* A file sync may fetch inline: its own path classifies Config or
\* Tokenizer and its declared size is below 10,000,000 bytes.
OwnSmallMetadata(file_path, size) ==
    /\ DecisionOrder(file_path) \in {"config", "tokenizer"}
    /\ size < 10000000

\* C12 (as claimed): sync fetches a listed file inline, and sets its
\* artifact Completed with a metadata local path, only if the file's own
\* path classifies Config or Tokenizer and its declared size is below
\* 10,000,000 bytes, for new artifacts and for existing ones; Model and
\* Other files are not fetched and their artifacts keep status and path.
C12_InlineOnlyOwnMetadata ==
    /\ \A p \in meta :
         \E i \in DOMAIN remote :
            /\ remote[i].path = p[3]
            /\ OwnSmallMetadata(remote[i].path, remote[i].size)
    /\ \A a \in DOMAIN artifacts :
         (artifacts[a].local_path # NoPath
             /\ artifacts[a].local_path[1] = "metadata")
           => OwnSmallMetadata(artifacts[a].file_path, artifacts[a].size_bytes)

\* Worker w takes this step as a sync task.
SyncStepOf(w) == wk[w].fn = "sync_repo_metadata" /\ wk'[w] # wk[w]

\* Worker w takes the step of the final commit (lines 133-137).
FinalCommitOf(w) ==
    /\ SyncStepOf(w)
    /\ wk[w].pc = "s_loop"
    /\ wk'[w].pc = "s_finish"

\* C13: a sync that fails before its final commit writes no repository
\* status: every step of a sync task but the final commit, the failure
\* handler included, leaves the repositories as they are; a status only
\* changes in the final commit of a run that raised nothing, and that run
\* does not fail afterwards.
C13_FailedSyncKeepsStatus ==
    [][/\ \A w \in Workers :
            (SyncStepOf(w) /\ ~FinalCommitOf(w)) => repos' = repos
       /\ \A r \in DOMAIN repos :
            repos'[r].status # repos[r].status =>
                \E w \in Workers :
                    /\ FinalCommitOf(w)
                    /\ wk[w].model_repo = r
                    /\ wk[w].exc = None
       /\ \A w \in Workers :
            (SyncStepOf(w) /\ wk[w].pc = "s_finish")
                => wk'[w].pc \in {"return", "idle"}]_vars

\* C13 witness: a first sync failed at the remote listing and the
\* repository is still Registered.
C13_Witness ==
    \E w \in Workers :
        /\ wk[w].fn = "sync_repo_metadata"
        /\ wk[w].pc = "raise"
        /\ wk[w].exc = "Failed to list files"
        /\ jobs[wk[w].job_id].status = "failed"
        /\ repos[wk[w].model_repo].status = "registered"

\* C14: a sync run persists nothing while it processes the listed files,
\* nor when its worker crashes there; the step that writes the repository
\* Synced persists with it every artifact the run created and, for every
\* listed file, a row with the listed size.
C14_SyncedWithAllUpserts ==
    [][\A w \in Workers :
          /\ (SyncStepOf(w) /\ wk[w].pc = "s_loop" /\ ~FinalCommitOf(w)) =>
                /\ artifacts' = artifacts
                /\ repos' = repos
          /\ FinalCommitOf(w) =>
                /\ repos'[wk[w].model_repo].status = "synced"
                /\ Len(artifacts') = Len(artifacts) + wk[w].artifacts_created
                /\ \A i \in DOMAIN wk[w].files :
                     \E a \in DOMAIN artifacts' :
                        /\ artifacts'[a].model_repo_id = wk[w].model_repo
                        /\ artifacts'[a].file_path = wk[w].files[i].path
                        /\ artifacts'[a].size_bytes = wk[w].files[i].size]_vars

\* C14 witness: a sync whose worker crashed has been delivered again and is
\* past its final commit, with one artifact per listed file, all its own.
C14_Witness ==
    \E w \in Workers :
        /\ wk[w].fn = "sync_repo_metadata"
        /\ wk[w].pc = "s_finish"
        /\ Delivered(wk[w].job_id) = 2
        /\ wk[w].artifacts_created = Len(wk[w].files)
        /\ Len(artifacts) = Len(wk[w].files)
        /\ repos[wk[w].model_repo].status = "synced"

\* The artifacts Completed with a local path under the metadata directory.
InlineCompleted ==
    {a \in DOMAIN artifacts :
        /\ artifacts[a].download_status = "completed"
        /\ artifacts[a].local_path # NoPath
        /\ artifacts[a].local_path[1] = "metadata"}

\* Worker w handles a new small Config or Tokenizer file in this step and
\* does not count it as downloaded: its inline fetch failed.
InlineFetchFailed(w) ==
    /\ SyncStepOf(w)
    /\ wk[w].pc = "s_loop"
    /\ wk'[w].pc # "idle"
    /\ wk[w].idx <= Len(wk[w].files)
    /\ OwnSmallMetadata(wk[w].files[wk[w].idx].path, wk[w].files[wk[w].idx].size)
    /\ ArtifactsAt(wk[w].model_repo, wk[w].files[wk[w].idx].path) = {}
    /\ wk'[w].metadata_files_downloaded = wk[w].metadata_files_downloaded

\* C15: with syncs run one after another, a failed inline fetch raises
\* nothing: the loop goes on with the next file and the new artifact stays
\* Pending without local path; and a first sync that has returned has its
\* job Completed and the repository Synced, counts as downloaded exactly
\* the artifacts it completed, and left the others Pending without path.
C15_InlineFailureNotFatal ==
    [][\A w \in Workers :
          /\ InlineFetchFailed(w) =>
                /\ wk'[w].pc = "s_loop"
                /\ wk'[w].idx = wk[w].idx + 1
                /\ wk'[w].exc = None
                /\ meta' = meta
                /\ LET row == wk'[w].added[Len(wk'[w].added)]
                   IN /\ row.file_path = wk[w].files[wk[w].idx].path
                      /\ row.download_status = "pending"
                      /\ row.local_path = NoPath
          /\ (/\ wk'[w].fn = "sync_repo_metadata"
              /\ wk'[w].pc = "return"
              /\ wk'[w].artifacts_created = Len(wk'[w].files)) =>
                /\ jobs'[wk'[w].job_id].status = "completed"
                /\ repos'[wk'[w].model_repo].status = "synced"
                /\ Cardinality(InlineCompleted')
                     = wk'[w].metadata_files_downloaded
                /\ \A a \in DOMAIN artifacts' \ InlineCompleted' :
                     /\ artifacts'[a].download_status = "pending"
                     /\ artifacts'[a].local_path = NoPath]_vars

\* C15 witness: a first sync has returned with fewer files downloaded than
\* small Config and Tokenizer files listed.
C15_Witness ==
    \E w \in Workers :
        /\ wk[w].fn = "sync_repo_metadata"
        /\ wk[w].pc = "return"
        /\ wk[w].artifacts_created = Len(wk[w].files)
        /\ wk[w].metadata_files_downloaded
             < Cardinality(SmallMetadata(wk[w].files))
        /\ jobs[wk[w].job_id].status = "completed"
        /\ repos[wk[w].model_repo].status = "synced"

\* Worker w takes this step as a download task.
DownloadStepOf(w) == wk[w].fn = "download_artifact" /\ wk'[w] # wk[w]

\* C16: a download that raises, whatever step raised, goes to its failure
\* handler; the handler's first commit leaves the artifact, if there is
\* one, Failed; and the task ends raising only after that commit.
C16_FailedDownloadMarksArtifact ==
    [][\A w \in Workers :
          DownloadStepOf(w) =>
            /\ (wk[w].exc = None /\ wk'[w].exc # None)
                 => wk'[w].pc = "d_except"
            /\ (wk[w].pc = "d_except" /\ wk'[w].pc # "idle") =>
                 /\ wk'[w].pc = "d_except_job"
                 /\ wk[w].arg \in DOMAIN artifacts
                      => artifacts'[wk[w].arg].download_status = "failed"
            /\ wk'[w].pc = "raise" => wk[w].pc = "d_except_job"]_vars

\* C16 witness: a download that lost its temp file to another download of
\* the same artifact has marked the artifact Failed.
C16_Witness ==
    \E w \in Workers :
        /\ wk[w].fn = "download_artifact"
        /\ wk[w].pc = "d_except_job"
        /\ wk[w].exc = "FileNotFoundError (rename)"
        /\ artifacts[wk[w].arg].download_status = "failed"

TempFileGone ==
    {"FileNotFoundError (open)", "FileNotFoundError (unlink)",
     "FileNotFoundError (rename)"}

\* C18 (as claimed): of two download tasks that work on the same artifact
\* at the same time neither fails because its temp file is gone, and when
\* both have returned the artifact is Completed with a stored blob as its
\* local path.
C18_SameArtifactBothComplete ==
    \A v, w \in Workers :
        (/\ v # w
         /\ wk[v].fn = "download_artifact" /\ wk[w].fn = "download_artifact"
         /\ wk[v].arg = wk[w].arg) =>
            /\ wk[v].exc \notin TempFileGone
            /\ wk[w].exc \notin TempFileGone
            /\ (wk[v].pc = "return" /\ wk[w].pc = "return") =>
                 /\ artifacts[wk[v].arg].download_status = "completed"
                 /\ artifacts[wk[v].arg].local_path \in DOMAIN blobs

\* An earlier download job for artifact a has Failed.
FailedBefore(job_id, a) ==
    \E j \in DOMAIN jobs :
        /\ j < job_id
        /\ jobs[j].type = "download"
        /\ jobs[j].payload = a
        /\ jobs[j].status = "failed"

\* C19: with downloads run one after another, a download task comes to
\* its fetch only from the step that commits the artifact Downloading, the
\* temp area gets a file only in the fetch step, and for as long as the
\* fetch is in flight the catalog shows the artifact Downloading.
C19_DownloadingBeforeFetch ==
    [][\A w \in Workers :
          /\ DownloadStepOf(w) =>
               /\ wk'[w].pc = "d_fetch" =>
                    /\ wk[w].pc = "d_resolve"
                    /\ artifacts'[wk[w].arg].download_status = "downloading"
               /\ temp' # temp /\ temp \subseteq temp' => wk[w].pc = "d_fetch"
          /\ (wk'[w].fn = "download_artifact" /\ wk'[w].pc = "d_fetch") =>
               artifacts'[wk'[w].arg].download_status = "downloading"]_vars

\* C19 witness: the fetch of a retried download is in flight; the artifact,
\* Failed by the earlier job, shows Downloading.
C19_Witness ==
    \E w \in Workers :
        /\ wk[w].fn = "download_artifact"
        /\ wk[w].pc = "d_fetch"
        /\ FailedBefore(wk[w].job_id, wk[w].arg)
        /\ artifacts[wk[w].arg].download_status = "downloading"

\* A download task past its catalog update that retries an artifact an
\* earlier download job left Failed.
RetryDone(w) ==
    /\ wk[w].fn = "download_artifact"
    /\ wk[w].pc \in {"d_finish", "return"}
    /\ FailedBefore(wk[w].job_id, wk[w].arg)

\* C20: with downloads run one after another, a fresh download job for an
\* artifact that an earlier job left Failed, once its fetch, hash and
\* placing succeeded, has the artifact Completed with the digest of its
\* bytes as hash and the stored blob of that digest as local path, and
\* ends with the job Completed.
C20_RetryAfterFailure ==
    \A w \in Workers :
        RetryDone(w) =>
            /\ artifacts[wk[w].arg].download_status = "completed"
            /\ Stored(artifacts, wk[w].arg)
            /\ artifacts[wk[w].arg].local_path \in DOMAIN blobs
            /\ wk[w].exc = None
            /\ wk[w].pc = "return" => jobs[wk[w].job_id].status = "completed"

\* C20 witness: the retry of an artifact whose earlier job Failed has
\* returned, each job delivered once.
C20_Witness ==
    \E w \in Workers :
        /\ RetryDone(w)
        /\ wk[w].pc = "return"
        /\ crashes = 0
        /\ jobs[wk[w].job_id].status = "completed"
        /\ artifacts[wk[w].arg].download_status = "completed"


\* C21: a sync job whose payload names a remote id with no Repository
\* record ends Failed with the exception propagated: no step of it calls the
\* registry's file listing, none creates or changes an Artifact or a
\* Repository record or a stored file, the only exception it meets is the
\* missing repository, and when it raises its Job is Failed.
C21_UnregisteredSyncFails ==
    [][\A w \in Workers :
          (SyncStepOf(w) /\ ReposById(wk[w].arg) = {}) =>
             /\ repos' = repos
             /\ artifacts' = artifacts
             /\ <<temp, blobs, meta>>' = <<temp, blobs, meta>>
             /\ wk'[w].files = <<>>
             /\ wk'[w].pc \in {"s_lookup", "s_except", "raise", "idle"}
             /\ wk'[w].pc \in {"s_except", "raise"} =>
                   wk'[w].exc = "ModelRepo not found"
             /\ wk'[w].pc = "raise" =>
                   /\ jobs'[wk[w].job_id].status = "failed"
                   /\ jobs'[wk[w].job_id].logs =
                         <<"Error", "ModelRepo not found">>]_vars

\* C21 witness: the sync of the unregistered id has raised, its Job Failed.
C21_Witness ==
    \E w \in Workers :
        /\ wk[w].fn = "sync_repo_metadata"
        /\ wk[w].arg = UnregisteredId
        /\ wk[w].pc = "raise"
        /\ ReposById(UnregisteredId) = {}
        /\ jobs[wk[w].job_id].status = "failed"
        /\ crashes = 0


\* C22: every Repository's status is Registered or Synced and never Error,
\* and no step (a failed sync, a later sync, a download, a registration
\* attempt) takes a Synced repository back to Registered.
C22_StatusRegisteredThenSynced ==
    [][\A r \in DOMAIN repos' :
          /\ repos'[r].status \in {"registered", "synced"}
          /\ (r \in DOMAIN repos /\ repos[r].status = "synced")
                => repos'[r].status = "synced"]_vars

\* C22 witness: the repository is Synced after a sync of it has failed, a
\* download has run and a registration of its remote id was refused.
C22_Witness ==
    /\ \E r \in DOMAIN repos : repos[r].status = "synced"
    /\ \E j \in DOMAIN jobs :
          jobs[j].type = "sync" /\ jobs[j].status = "failed"
    /\ \E j \in DOMAIN jobs :
          jobs[j].type = "download" /\ jobs[j].status \in Terminal
    /\ \E c \in Clients : cl[c].resp = "400"


\* The download request handled by c has created a Job already.
HasEnqueued(c) ==
    /\ cl[c].kind = "download"
    /\ cl[c].job_id # IdleClient.job_id

\* C23 (as claimed): a download submission answered NotFound has created no
\* Job record and enqueued no work, also when only a later one of the
\* artifact ids it lists is absent.
C23_NotFoundCreatesNothing ==
    [][\A c \in Clients :
          (cl[c].pc = "dl_loop" /\ cl'[c].resp = "404") => ~HasEnqueued(c)]_vars


\* The ids a Job can have.
JobIds == 1..(MaxJobs + 1)

C25_FailedSyncPersistsNothing ==
    [][\A w \in Workers :
          (SyncStepOf(w) /\ ~FinalCommitOf(w)) => artifacts' = artifacts]_vars


\* The local path of artifact a lies in the blob store.
InBlobStore(a) ==
    /\ a.local_path # NoPath
    /\ Len(a.local_path) = 3
    /\ a.local_path[1] = "blobs"

\* C26 (as claimed): every artifact whose local path lies in the blob store
\* has the digest that keys that blob as its content hash, that is, its
\* local path is the store path of its content hash; also after a later
\* sync of its repository.
C26_LocalPathIsStorePathOfHash ==
    \A i \in DOMAIN artifacts :
        InBlobStore(artifacts[i]) =>
            artifacts[i].local_path =
                FinalPath(artifacts[i].content_hash, artifacts[i].file_path)


\* C27: whenever a Sync job is Completed the Repository its payload names
\* is Synced, and the step that marks it Completed is taken by a task that
\* has passed its final commit: the Synced status is stored already and the
\* task's session holds no unwritten artifact.
C27_CompletedSyncMeansSynced ==
    [][\A j \in DOMAIN jobs' :
          (jobs'[j].type = "sync" /\ jobs'[j].status = "completed") =>
             /\ \E r \in DOMAIN repos' :
                   /\ repos'[r].repo_id = jobs'[j].payload
                   /\ repos'[r].status = "synced"
             /\ (j \in DOMAIN jobs /\ jobs[j].status # "completed") =>
                   \E w \in Workers :
                      /\ wk[w].job_id = j
                      /\ wk[w].pc = "s_finish"
                      /\ wk[w].dirty = <<>>
                      /\ wk[w].added = <<>>
                      /\ repos[wk[w].model_repo].status = "synced"]_vars

\* C27 witness: a sync task has marked its Job Completed and is about to
\* return; the repository is Synced.
C27_Witness ==
    \E w \in Workers :
        /\ wk[w].fn = "sync_repo_metadata"
        /\ wk[w].pc = "return"
        /\ jobs[wk[w].job_id].status = "completed"
        /\ \E r \in ReposById(wk[w].arg) : repos[r].status = "synced"


\* C28: for sync, download and scan submissions the Job record is committed
\* with status Pending before the work item is placed on the queue: a Job
\* is created Pending and not yet queued, every job id on the queue and
\* every job id a worker holds refers to an existing Job record, and a
\* handler pushes the item of a Job that is stored already.
C28_JobStoredBeforeQueued ==
    [][/\ \A j \in DOMAIN jobs' :
             j \notin DOMAIN jobs =>
                /\ jobs'[j].status = "pending"
                /\ j \notin DOMAIN queue'
                /\ \A w \in Workers : wk'[w].job_id # j
       /\ \A j \in DOMAIN queue' : j \in DOMAIN jobs'
       /\ \A j \in DOMAIN queue' :
             j \notin DOMAIN queue => j \in DOMAIN jobs
       /\ \A w \in Workers :
             wk'[w].pc # "idle" => wk'[w].job_id \in DOMAIN jobs'
       /\ \A j \in DOMAIN jobs :
             (jobs[j].status # "running" /\ jobs'[j].status = "running") =>
                \E w \in Workers : wk[w].job_id = j /\ wk[w].pc = "start"]_vars

\* C28 witness: a worker has marked a delivered job Running while another
\* Job, stored Pending, waits on the queue.
C28_Witness ==
    /\ \E w \in Workers :
          /\ wk[w].pc \notin {"idle", "start"}
          /\ Delivered(wk[w].job_id) = 1
          /\ jobs[wk[w].job_id].status = "running"
    /\ \E j \in DOMAIN queue : jobs[j].status = "pending"

=============================================================================
